---------------------------- MODULE Spec2Model ----------------------------
(***************************************************************************)
(* A model of the ray tracer's rendering engine (src/src/lib.rs and the    *)
(* modules it uses): the renderer's construction, the render loop with its *)
(* fork/join band workers and their locks, the camera update, and the      *)
(* scene's functions (trace_ray, the intersection tests, the rotation      *)
(* matrices) called on their own.                                          *)
(*                                                                         *)
(* Numbers.  The program computes in f64.  The model computes in fixed     *)
(* point: a real number v is the integer round(v * Scale).  Angles are     *)
(* whole degrees (the code only ever adds or subtracts 5.0 and 3.0 and     *)
(* clamps to 89.0 / -35.0, all exact in f64), colours are the packed       *)
(* 24-bit integers of the code, and row/column counts are integers.        *)
(***************************************************************************)
EXTENDS Integers, Sequences, FiniteSets, TLC

Scale == 1000

(***************************************************************************)
(* Bounds of the model.                                                    *)
(***************************************************************************)
MaxFrames == 2          \* loop iterations of run() before the window closes
MaxThreads == 2         \* num_threads ranges over 1..MaxThreads in Spec
MaxMoveUpdates == 1     \* SpecCamera: updates in which move/yaw keys occur
MaxBandThreads == 4     \* SpecBands: num_threads ranges over 1..MaxBandThreads
MaxBandHeight == 6      \* SpecBands: canvas.height ranges over 0..MaxBandHeight
MaxScreenWidth == 6     \* SpecNew: screen_width ranges over 0..MaxScreenWidth
MaxUnitSize == 3        \* SpecNew: canvas_unit_size ranges over 0..MaxUnitSize
MaxPoseUpdates == 2     \* SpecMove: update_camera calls with look and move keys
MaxObjs == 2            \* SpecCalls: objects in the list of closest_intersection
MaxReflLimit == 2       \* SpecCalls: ray_refl_limit ranges over 0..MaxReflLimit

(***************************************************************************)
(* Fixed-point arithmetic.                                                 *)
(***************************************************************************)
Abs(a) == IF a < 0 THEN -a ELSE a

Sgn(a) == IF a < 0 THEN -1 ELSE IF a > 0 THEN 1 ELSE 0

\* n / d rounded to the nearest integer, halves away from zero (d # 0)
RDiv(n, d) == Sgn(n) * Sgn(d) * ((2 * Abs(n) + Abs(d)) \div (2 * Abs(d)))

FMul(a, b) == RDiv(a * b, Scale)

FDiv(a, b) == RDiv(a * Scale, b)

\* bisection: the largest r in lo..hi with r * r <= n
SqrtSearch[n \in Nat, lo \in Nat, hi \in Nat] ==
    IF lo >= hi THEN lo
    ELSE LET mid == (lo + hi + 1) \div 2
         IN  IF mid * mid <= n THEN SqrtSearch[n, mid, hi]
                               ELSE SqrtSearch[n, lo, mid - 1]

\* floor of the square root of the natural number n (n < 2^31)
ISqrt(n) == SqrtSearch[n, 0, 46340]

\* f64::sqrt of the fixed-point number a >= 0
FSqrt(a) == ISqrt(a * Scale)

SinTable ==
    <<0, 17, 35, 52, 70, 87, 105, 122, 139, 156, 174, 191, 208, 225, 242, 259,
      276, 292, 309, 326, 342, 358, 375, 391, 407, 423, 438, 454, 469, 485, 500,
      515, 530, 545, 559, 574, 588, 602, 616, 629, 643, 656, 669, 682, 695, 707,
      719, 731, 743, 755, 766, 777, 788, 799, 809, 819, 829, 839, 848, 857, 866,
      875, 883, 891, 899, 906, 914, 921, 927, 934, 940, 946, 951, 956, 961, 966,
      970, 974, 978, 982, 985, 988, 990, 993, 995, 996, 998, 999, 999, 1000, 1000>>

\* sin of a whole number of degrees, in fixed point
Sin(deg) ==
    LET d == deg % 360
    IN  IF d <= 90 THEN SinTable[d + 1]
        ELSE IF d <= 180 THEN SinTable[180 - d + 1]
        ELSE IF d <= 270 THEN -SinTable[d - 180 + 1]
        ELSE -SinTable[360 - d + 1]

Cos(deg) == Sin(deg + 90)

(***************************************************************************)
(* linalg.rs: Vec3d, Ray, Mat3.                                            *)
(***************************************************************************)
Vec3d(x, y, z) == [x |-> x, y |-> y, z |-> z]

\* the values of the types Vec3d, Ray and Mat3
Vec3dSet == [x : Int, y : Int, z : Int]
RaySet == [origin : Vec3dSet, dir : Vec3dSet]
Mat3Set == [1..3 -> [1..3 -> Int]]

VAdd(a, b) == Vec3d(a.x + b.x, a.y + b.y, a.z + b.z)

VSub(a, b) == Vec3d(a.x - b.x, a.y - b.y, a.z - b.z)

VScale(a, f) == Vec3d(FMul(a.x, f), FMul(a.y, f), FMul(a.z, f))

Dot(a, b) == RDiv(a.x * b.x + a.y * b.y + a.z * b.z, Scale)

Cross(a, b) ==
    Vec3d(FMul(a.y, b.z) - FMul(a.z, b.y),
          FMul(a.z, b.x) - FMul(a.x, b.z),
          FMul(a.x, b.y) - FMul(a.y, b.x))

magnitude(a) == ISqrt(a.x * a.x + a.y * a.y + a.z * a.z)

normalize[a \in Vec3dSet] ==
    LET m == magnitude(a)
    IN  IF m # 0 THEN VScale(a, FDiv(Scale, m)) ELSE a

Ray(origin, dir) == [origin |-> origin, dir |-> dir]

RayAt(ray, t) == VAdd(ray.origin, VScale(ray.dir, t))

Mat3Identity ==
    << <<Scale, 0, 0>>,
       <<0, Scale, 0>>,
       <<0, 0, Scale>> >>

rotation_x(deg) ==
    << <<Scale, 0, 0>>,
       <<0, Cos(deg), -Sin(deg)>>,
       <<0, Sin(deg), Cos(deg)>> >>

rotation_y(deg) ==
    << <<Cos(deg), 0, Sin(deg)>>,
       <<0, Scale, 0>>,
       <<-Sin(deg), 0, Cos(deg)>> >>

rotation_z(deg) ==
    << <<Cos(deg), -Sin(deg), 0>>,
       <<Sin(deg), Cos(deg), 0>>,
       <<0, 0, Scale>> >>

\* Mat3::rotation_matrix as written: u_skew_squared holds |axis|^2 on the
\* diagonal and the complete off-diagonal rotation terms elsewhere.
rotation_matrix[axis \in Vec3dSet, angle \in Int] ==
    LET cos_angle == Cos(angle)
        sin_angle == Sin(angle)
        omc == Scale - cos_angle
        u_skew == << <<0, -axis.z, axis.y>>,
                     <<axis.z, 0, -axis.x>>,
                     <<-axis.y, axis.x, 0>> >>
        len2 == FMul(axis.x, axis.x) + FMul(axis.y, axis.y) + FMul(axis.z, axis.z)
        xy == FMul(FMul(axis.x, axis.y), omc)
        xz == FMul(FMul(axis.x, axis.z), omc)
        yz == FMul(FMul(axis.y, axis.z), omc)
        u_skew_squared ==
            << <<len2, xy - FMul(axis.z, sin_angle), xz + FMul(axis.y, sin_angle)>>,
               <<xy + FMul(axis.z, sin_angle), len2, yz - FMul(axis.x, sin_angle)>>,
               <<xz - FMul(axis.y, sin_angle), yz + FMul(axis.x, sin_angle), len2>> >>
    IN  [i \in 1..3 |-> [j \in 1..3 |->
            Mat3Identity[i][j] + FMul(sin_angle, u_skew[i][j])
                               + FMul(omc, u_skew_squared[i][j])]]

MatMul[a \in Mat3Set, b \in Mat3Set] ==
    [i \in 1..3 |-> [j \in 1..3 |->
        RDiv(a[i][1] * b[1][j] + a[i][2] * b[2][j] + a[i][3] * b[3][j], Scale)]]

MatVec[m \in Mat3Set, v \in Vec3dSet] ==
    Vec3d(RDiv(m[1][1] * v.x + m[1][2] * v.y + m[1][3] * v.z, Scale),
          RDiv(m[2][1] * v.x + m[2][2] * v.y + m[2][3] * v.z, Scale),
          RDiv(m[3][1] * v.x + m[3][2] * v.y + m[3][3] * v.z, Scale))

(***************************************************************************)
(* lib.rs: Camera.                                                         *)
(***************************************************************************)
\* Camera::new; aspect_ratio in fixed point
CameraNew(origin, aspect_ratio) ==
    [origin |-> origin,
     vp_width |-> FMul(Scale, aspect_ratio),
     vp_height |-> Scale,
     vp_depth |-> -1,
     y_rot |-> 0,
     x_rot |-> 0,
     rot_m |-> Mat3Identity]

\* the values of the type Camera
CameraSet ==
    [origin : Vec3dSet, vp_width : Int, vp_height : Int, vp_depth : Int,
     y_rot : Int, x_rot : Int, rot_m : Mat3Set]

x_speed == 300
z_speed == 300
y_rot_speed == 5
x_rot_speed == 3
MaxPitch == 89
MinPitch == -35

Min(a, b) == IF a < b THEN a ELSE b

Max(a, b) == IF a > b THEN a ELSE b

\* the keys update_camera has an arm for, and one it ignores
MoveKeys == {"A", "D", "W", "S"}
YawKeys == {"Left", "Right"}
PitchKeys == {"Up", "Down"}
Keys == MoveKeys \cup YawKeys \cup PitchKeys \cup {"Space"}

\* the origin after a movement key: a step along the rotated local axis, of
\* which only the x and z components are added
Moved[cam \in CameraSet, axis \in Vec3dSet, speed \in Int] ==
    LET step == VScale(normalize[MatVec[cam.rot_m, axis]], speed)
    IN  [cam EXCEPT !.origin = VAdd(cam.origin, Vec3d(step.x, 0, step.z))]

\* ApplyKey with the clamps of lines 366 and 369 left out
ApplyKey_NoClamp(cam, key) ==
    CASE key = "A" -> Moved[cam, Vec3d(-Scale, 0, 0), x_speed]
      [] key = "D" -> Moved[cam, Vec3d(Scale, 0, 0), x_speed]
      [] key = "W" -> Moved[cam, Vec3d(0, 0, -Scale), z_speed]
      [] key = "S" -> Moved[cam, Vec3d(0, 0, Scale), z_speed]
      [] key = "Left" -> [cam EXCEPT !.y_rot = cam.y_rot + y_rot_speed]
      [] key = "Right" -> [cam EXCEPT !.y_rot = cam.y_rot - y_rot_speed]
      [] key = "Up" -> [cam EXCEPT !.x_rot = cam.x_rot + x_rot_speed]
      [] key = "Down" -> [cam EXCEPT !.x_rot = cam.x_rot - x_rot_speed]
      [] OTHER -> cam

\* ApplyKey with the whole step of a movement key added to the origin, its
\* y component included
ApplyKey_Vertical(cam, key) ==
    LET axis == CASE key = "A" -> Vec3d(-Scale, 0, 0)
                  [] key = "D" -> Vec3d(Scale, 0, 0)
                  [] key = "W" -> Vec3d(0, 0, -Scale)
                  [] OTHER -> Vec3d(0, 0, Scale)
        step == VScale(normalize[MatVec[cam.rot_m, axis]], x_speed)
    IN  CASE key \in MoveKeys -> [cam EXCEPT !.origin = VAdd(cam.origin, step)]
          [] key = "Left" -> [cam EXCEPT !.y_rot = cam.y_rot + y_rot_speed]
          [] key = "Right" -> [cam EXCEPT !.y_rot = cam.y_rot - y_rot_speed]
          [] key = "Up" -> [cam EXCEPT !.x_rot = Min(cam.x_rot + x_rot_speed, MaxPitch)]
          [] key = "Down" -> [cam EXCEPT !.x_rot = Max(cam.x_rot - x_rot_speed, MinPitch)]
          [] OTHER -> cam

\* ApplyKey with rot_m rebuilt by every look key at once, so that a movement
\* key later in the same call moves along the new direction
ApplyKey_EagerRotation(cam, key) ==
    LET turned ==
            CASE key = "Left" -> [cam EXCEPT !.y_rot = cam.y_rot + y_rot_speed]
              [] key = "Right" -> [cam EXCEPT !.y_rot = cam.y_rot - y_rot_speed]
              [] key = "Up" -> [cam EXCEPT !.x_rot = Min(cam.x_rot + x_rot_speed, MaxPitch)]
              [] key = "Down" -> [cam EXCEPT !.x_rot = Max(cam.x_rot - x_rot_speed, MinPitch)]
              [] OTHER -> cam
    IN  CASE key = "A" -> Moved[cam, Vec3d(-Scale, 0, 0), x_speed]
          [] key = "D" -> Moved[cam, Vec3d(Scale, 0, 0), x_speed]
          [] key = "W" -> Moved[cam, Vec3d(0, 0, -Scale), z_speed]
          [] key = "S" -> Moved[cam, Vec3d(0, 0, Scale), z_speed]
          [] OTHER ->
              [turned EXCEPT !.rot_m =
                  MatMul[rotation_matrix[MatVec[rotation_y(turned.y_rot),
                                                Vec3d(Scale, 0, 0)],
                                         turned.x_rot],
                         rotation_y(turned.y_rot)]]

\* one arm of the match in update_camera
ApplyKey(cam, key) ==
    CASE key = "A" -> Moved[cam, Vec3d(-Scale, 0, 0), x_speed]
      [] key = "D" -> Moved[cam, Vec3d(Scale, 0, 0), x_speed]
      [] key = "W" -> Moved[cam, Vec3d(0, 0, -Scale), z_speed]
      [] key = "S" -> Moved[cam, Vec3d(0, 0, Scale), z_speed]
      [] key = "Left" -> [cam EXCEPT !.y_rot = cam.y_rot + y_rot_speed]
      [] key = "Right" -> [cam EXCEPT !.y_rot = cam.y_rot - y_rot_speed]
      [] key = "Up" -> [cam EXCEPT !.x_rot = Min(cam.x_rot + x_rot_speed, MaxPitch)]
      [] key = "Down" -> [cam EXCEPT !.x_rot = Max(cam.x_rot - x_rot_speed, MinPitch)]
      [] OTHER -> cam

ApplyKeys[cam \in CameraSet, keys \in Seq(Keys)] ==
    IF keys = << >> THEN cam
    ELSE ApplyKeys[ApplyKey(cam, Head(keys)), Tail(keys)]

\* rot_m is rebuilt from y_rot and x_rot after the keys have been processed
RebuildRotation[cam \in CameraSet] ==
    LET y_rot_matrix == rotation_y(cam.y_rot)
        x_rot_matrix == rotation_matrix[MatVec[y_rot_matrix, Vec3d(Scale, 0, 0)],
                                        cam.x_rot]
    IN  [cam EXCEPT !.rot_m = MatMul[x_rot_matrix, y_rot_matrix]]

\* update_camera with the new rotation composed onto the rotation before
update_camera_Composed(cam, keys) ==
    [ApplyKeys[cam, keys] EXCEPT
        !.rot_m = MatMul[RebuildRotation[ApplyKeys[cam, keys]].rot_m, cam.rot_m]]

\* the body of Renderer::update_camera, run under the camera's write lock
update_camera(cam, keys) == RebuildRotation[ApplyKeys[cam, keys]]

(***************************************************************************)
(* color.rs: packed 24-bit colours.                                        *)
(***************************************************************************)
Red == 16711680
Lime == 65280
Navy == 128

ColorR(c) == (c \div 65536) % 256

ColorG(c) == (c \div 256) % 256

ColorB(c) == c % 256

Pack(r, g, b) == r * 65536 + g * 256 + b

\* (channel as f64 * factor).clamp(0.0, 255.0) as usize; factor in fixed point
ScaleChannel(ch, factor) ==
    IF ch * factor <= 0 THEN 0 ELSE Min((ch * factor) \div Scale, 255)

ColorScale(c, factor) ==
    Pack(ScaleChannel(ColorR(c), factor),
         ScaleChannel(ColorG(c), factor),
         ScaleChannel(ColorB(c), factor))

(***************************************************************************)
(* object.rs: the objects of the scene and the nearest-hit query.  An      *)
(* Option<f64> is the empty sequence (None) or a one-element sequence.     *)
(***************************************************************************)
Range(min, max) == [min |-> min, max |-> max]

RangeSet == [min : Int, max : Int]

\* the closest hit so far in closest_intersection (obj = 0: none) and the
\* values of its result
ClosestSet == [obj : Nat, t : Int]
HitSet == [obj : Nat] \cup [obj : Nat, intxp : Vec3dSet]

InRange(t, t_range) == t >= t_range.min /\ t <= t_range.max

\* PickRoot with the first root preferred when both lie in the range
PickRoot_First(t1, t2, t_range) ==
    IF InRange(t1, t_range) THEN <<t1>>
    ELSE IF InRange(t2, t_range) THEN <<t2>>
    ELSE << >>

\* lines 113-125 of Sphere::get_closest_intersection: the smaller root when
\* both lie in the range, else the one that does, else None
PickRoot(t1, t2, t_range) ==
    IF InRange(t1, t_range) /\ InRange(t2, t_range)
    THEN (IF t1 < t2 THEN <<t1>> ELSE <<t2>>)
    ELSE IF InRange(t1, t_range) THEN <<t1>>
    ELSE IF InRange(t2, t_range) THEN <<t2>>
    ELSE << >>

\* lines 103-111: the roots of a t^2 + b t + c.  A zero direction makes a = 0
\* and both roots NaN or infinite in f64, which no range test accepts.
SolveQuadratic[a \in Int, b \in Int, c \in Int, t_range \in RangeSet] ==
    LET discnm == FMul(b, b) - 4 * FMul(a, c)
    IN  IF discnm < 0 \/ a = 0 THEN << >>
        ELSE PickRoot(FDiv(-b + FSqrt(discnm), 2 * a),
                      FDiv(-b - FSqrt(discnm), 2 * a), t_range)

\* Sphere::get_closest_intersection
SphereIntersection(sphere, ray, t_range) ==
    SolveQuadratic[Dot(ray.dir, ray.dir),
                   2 * Dot(VSub(ray.origin, sphere.center), ray.dir),
                   Dot(VSub(ray.origin, sphere.center),
                       VSub(ray.origin, sphere.center))
                       - FMul(sphere.radius, sphere.radius),
                   t_range]

\* f64::EPSILON is below the resolution of the fixed-point numbers: the
\* smallest positive one stands for it, so that -EPSILON < det < EPSILON
\* holds exactly when det = 0
EPSILON == 1

\* lines 177-200 of Triangle::get_closest_intersection: the determinant, the
\* barycentric coordinates u and a of the plane crossing and its t.  The
\* products with inv_det = 1 / det are divisions by det, which lose no
\* digits in fixed point; with det = 0 the code returns before it divides.
Barycentric(triangle, ray) ==
    LET e1 == VSub(triangle.ps[2], triangle.ps[1])
        e2 == VSub(triangle.ps[3], triangle.ps[1])
        v_cross_e2 == Cross(ray.dir, e2)
        det == Dot(e1, v_cross_e2)
        s == VSub(ray.origin, triangle.ps[1])
        s_cross_e1 == Cross(s, e1)
    IN  IF det = 0 THEN [det |-> 0]
        ELSE [det |-> det,
              u |-> FDiv(Dot(s, v_cross_e2), det),
              a |-> FDiv(Dot(ray.dir, s_cross_e1), det),
              t |-> FDiv(Dot(e2, s_cross_e1), det)]

\* TriangleIntersection without the test u + a > 1.0 of line 196
TriangleIntersection_NoSumTest(triangle, ray, t_range) ==
    LET b == Barycentric(triangle, ray)
    IN  IF b.det > -EPSILON /\ b.det < EPSILON THEN << >>
        ELSE IF b.u < 0 \/ b.u > Scale THEN << >>
        ELSE IF b.a < 0 THEN << >>
        ELSE IF InRange(b.t, t_range) THEN <<b.t>>
        ELSE << >>

\* Triangle::get_closest_intersection (Moeller-Trumbore); ps[1], ps[2] and
\* ps[3] are the vertices ps[0], ps[1] and ps[2] of the code
TriangleIntersection(triangle, ray, t_range) ==
    LET b == Barycentric(triangle, ray)
    IN  IF b.det > -EPSILON /\ b.det < EPSILON THEN << >>
        ELSE IF b.u < 0 \/ b.u > Scale THEN << >>
        ELSE IF b.a < 0 \/ b.u + b.a > Scale THEN << >>
        ELSE IF InRange(b.t, t_range) THEN <<b.t>>
        ELSE << >>

\* Closer with a hit as close as the closest so far accepted as well
Closer_OrEqual(step, closest_t) == step <= closest_t

\* line 43 of closest_intersection
Closer(step, closest_t) == step < closest_t

\* lines 42-46 of closest_intersection: object k replaces the closest hit so
\* far when it reports a hit strictly closer than closest_t
CloserHit[closest \in ClosestSet, t \in Seq(Int), k \in Nat] ==
    IF t # << >> /\ Closer(t[1], closest.t) THEN [obj |-> k, t |-> t[1]] ELSE closest

\* the loop of closest_intersection from object k on; closest.obj is the index
\* of the closest object so far (0: none yet)
RECURSIVE ClosestScan(_, _, _, _, _)
ClosestScan(objs, ray, t_range, k, closest) ==
    IF k > Len(objs) THEN closest
    ELSE ClosestScan(objs, ray, t_range, k + 1,
                     CloserHit[closest,
                               SphereIntersection(objs[k], ray, t_range), k])

\* lines 49-54: the hit point of the object found, or obj = 0 for None
HitOf[found \in ClosestSet, ray \in RaySet] ==
    IF found.obj # 0
    THEN [obj |-> found.obj, intxp |-> RayAt(ray, found.t)]
    ELSE [obj |-> 0]

\* closest_intersection: the index of the object hit and the hit point
closest_intersection(objs, ray, t_range) ==
    HitOf[ClosestScan(objs, ray, t_range, 1, [obj |-> 0, t |-> t_range.max]),
          ray]

(***************************************************************************)
(* lib.rs: Scene.  The scene is built once and never changes.  A light is  *)
(* a record with its kind ("Ambient", "Point", "Directional"), a material  *)
(* is a record with its kind ("Matte", "Shiny"); the specular exponent of  *)
(* a shiny material is a whole number.  The scene the renderer of the      *)
(* model draws has ambient light and matte spheres.                        *)
(***************************************************************************)
Scene ==
    [camera_origin |-> Vec3d(0, 0, 0),
     bg_col |-> Navy,
     lights |-> << [kind |-> "Ambient", intensity |-> 500] >>,
     objs |-> << [center |-> Vec3d(0, 1000, -3000), radius |-> 800,
                  color |-> Red, material |-> [kind |-> "Matte"]],
                 [center |-> Vec3d(-1000, -1000, -3000), radius |-> 800,
                  color |-> Lime, material |-> [kind |-> "Matte"]] >>]

\* EPSILON * 1000000.0, the smallest t of a shadow ray or a reflected ray: the
\* smallest positive number of the fixed-point grid; and f64 INFINITY
ShadowMin == 1
Infinity == 1000000000

\* Vec3d::reflect
reflect(v, norm) ==
    VSub(VScale(VScale(normalize[norm], Dot(normalize[norm], v)), 2 * Scale), v)

\* Sphere::get_normal, an Option
get_normal(obj, p) == <<normalize[VSub(p, obj.center)]>>

\* base.powf(exp) for a whole exponent
RECURSIVE Pow(_, _)
Pow(base, exp) == IF exp = 0 THEN Scale ELSE FMul(base, Pow(base, exp - 1))

\* Color::add
ColorAdd(a, b) ==
    Pack(Min(ColorR(a) + ColorR(b), 255),
         Min(ColorG(a) + ColorG(b), 255),
         Min(ColorB(a) + ColorB(b), 255))

\* lines 169-175: the direction from the hit point to the light
LightDir(light, intxp) ==
    IF light.kind = "Point" THEN VSub(light.pos, intxp)
    ELSE VScale(light.dir, -Scale)

\* Blocks with every hit of the shadow ray taken to block a point light
Blocks_AnyHit(shdw, intxp, pos) == shdw.obj # 0

\* lines 185-189: the hit of the shadow ray blocks a point light when it is
\* closer to the hit point than the light
Blocks(shdw, intxp, pos) ==
    /\ shdw.obj # 0
    /\ magnitude(VSub(intxp, shdw.intxp)) < magnitude(VSub(intxp, pos))

\* lines 184-195: the 'continue' of the light loop is taken
Shadowed(objs, light, intxp) ==
    IF light.kind = "Point"
    THEN Blocks(closest_intersection(objs, Ray(intxp, LightDir(light, intxp)),
                                     Range(ShadowMin, Infinity)),
                intxp, light.pos)
    ELSE closest_intersection(objs, Ray(intxp, VScale(light.dir, -Scale)),
                              Range(ShadowMin, Infinity)).obj # 0

\* lines 200-202 and 233-235: the normal is negated when its dot product with
\* dir is negative
OrientNormal(norm, dir) ==
    IF Dot(norm, dir) < 0 THEN VScale(norm, -Scale) ELSE norm

\* lines 205-208: diffuse reflection
Diffuse(light_intensity, norm, intxp_light_dir) ==
    IF Dot(norm, intxp_light_dir) > 0
    THEN FDiv(FMul(light_intensity, Dot(norm, intxp_light_dir)),
              FMul(magnitude(norm), magnitude(intxp_light_dir)))
    ELSE 0

\* lines 211-218: specular reflection, of shiny objects only
Specular(material, light_intensity, refl_dir, intxp_o_dir) ==
    IF material.kind = "Shiny" /\ Dot(refl_dir, intxp_o_dir) > 0
    THEN FMul(light_intensity,
              Pow(FDiv(Dot(refl_dir, intxp_o_dir),
                       FMul(magnitude(refl_dir), magnitude(intxp_o_dir))),
                  material.spclr_exp))
    ELSE 0

\* lines 198-219: what a point or directional light that is not shadowed adds
Lit(obj, light, ray, intxp, norm, intxp_light_dir) ==
    IF norm = << >> THEN 0
    ELSE Diffuse(light.intensity, OrientNormal(norm[1], intxp_light_dir),
                 intxp_light_dir)
         + Specular(obj.material, light.intensity,
                    reflect(intxp_light_dir,
                            OrientNormal(norm[1], intxp_light_dir)),
                    VSub(ray.origin, intxp))

\* lines 163-220: what one light adds to direct_light_intensity
LightContribution(objs, obj, light, ray, intxp) ==
    IF light.kind = "Ambient" THEN light.intensity
    ELSE IF Shadowed(objs, light, intxp) THEN 0
    ELSE Lit(obj, light, ray, intxp, get_normal(obj, intxp),
             LightDir(light, intxp))

\* lines 158-221: direct_light_intensity, from light k on
RECURSIVE DirectLight(_, _, _, _, _)
DirectLight(scene, obj, ray, intxp, k) ==
    IF k > Len(scene.lights) THEN 0
    ELSE LightContribution(scene.objs, obj, scene.lights[k], ray, intxp)
         + DirectLight(scene, obj, ray, intxp, k + 1)

\* Reflects with a reflection ratio of 0 reflecting as well
Reflects_ZeroRatio(material, ray_refl_limit) ==
    material.kind = "Shiny" /\ ray_refl_limit > 0

\* Reflects with the reflection limit 0 reflecting as well
Reflects_AtLimitZero(material, ray_refl_limit) ==
    /\ material.kind = "Shiny"
    /\ ~(ray_refl_limit < 0 \/ material.refl_rat <= 0)

\* lines 226-230: a shiny object reflects unless the limit is used up or its
\* reflection ratio is 0
Reflects(material, ray_refl_limit) ==
    /\ material.kind = "Shiny"
    /\ ~(ray_refl_limit <= 0 \/ material.refl_rat <= 0)

\* lines 226-251: the colour of a hit object and the nested calls made;
\* 'reflected' is the result of the nested call of line 242, which is made
\* only if the object reflects, and line 245 adds the two colours
HitColor(material, direct_color, ray_refl_limit, norm, reflected) ==
    IF Reflects(material, ray_refl_limit) /\ norm # << >>
    THEN [color |-> ColorAdd(ColorScale(direct_color, Scale - material.refl_rat),
                             ColorScale(reflected.color, material.refl_rat)),
          calls |-> <<ray_refl_limit - 1>> \o reflected.calls]
    ELSE [color |-> direct_color, calls |-> << >>]

\* the scenes trace_ray is called on by itself: a sphere A in front of the
\* origin, with or without a sphere B behind the origin that faces it, both
\* of one material; ambient light and one more light: a point light at the
\* origin (B is behind it), a point light behind B, or a directional light
\* along the z axis in either direction
CallScenes ==
    {[camera_origin |-> Vec3d(0, 0, 0),
      bg_col |-> Navy,
      lights |-> << [kind |-> "Ambient", intensity |-> 200], l >>,
      objs |-> SubSeq(<< [center |-> Vec3d(0, 0, -2000), radius |-> 1000,
                          color |-> Red, material |-> m],
                         [center |-> Vec3d(0, 0, 2000), radius |-> 1000,
                          color |-> Lime, material |-> m] >>, 1, n)] :
        l \in {[kind |-> "Point", intensity |-> 300, pos |-> Vec3d(0, 0, 0)],
               [kind |-> "Point", intensity |-> 300, pos |-> Vec3d(0, 0, 4000)],
               [kind |-> "Directional", intensity |-> 300,
                dir |-> Vec3d(0, 0, -1000)],
               [kind |-> "Directional", intensity |-> 300,
                dir |-> Vec3d(0, 0, 1000)]},
        m \in {[kind |-> "Matte"]}
              \cup {[kind |-> "Shiny", spclr_exp |-> 2, refl_rat |-> r] :
                       r \in {0, 300, 1000}},
        n \in 1..2}

\* the scenes of the model: the one the renderer draws and the ones
\* trace_ray is called on by itself
SceneSet == {Scene} \cup CallScenes

\* lines 237-240: the reflected ray
ReflectedRay(ray, intxp, norm) ==
    Ray(intxp, reflect(VScale(ray.dir, -Scale), OrientNormal(norm[1], ray.dir)))

\* lines 154-255 of trace_ray, the match on the result 'hit' of
\* closest_intersection: the background colour without a hit, else the colour
\* of the object hit, for which the reflected ray is traced in turn
Shade[scene \in SceneSet, ray \in RaySet, t_range \in RangeSet, ray_refl_limit \in Int, hit \in HitSet] ==
    IF hit.obj = 0 THEN [color |-> scene.bg_col, calls |-> << >>]
    ELSE HitColor(scene.objs[hit.obj].material,
                  ColorScale(scene.objs[hit.obj].color,
                             DirectLight(scene, scene.objs[hit.obj], ray,
                                         hit.intxp, 1)),
                  ray_refl_limit,
                  get_normal(scene.objs[hit.obj], hit.intxp),
                  Shade[scene,
                        ReflectedRay(ray, hit.intxp,
                                     get_normal(scene.objs[hit.obj], hit.intxp)),
                        Range(ShadowMin, t_range.max),
                        ray_refl_limit - 1,
                        closest_intersection(
                            scene.objs,
                            ReflectedRay(ray, hit.intxp,
                                         get_normal(scene.objs[hit.obj],
                                                    hit.intxp)),
                            Range(ShadowMin, t_range.max))])

\* Scene::trace_ray: the colour returned and, to follow the recursion, the
\* reflection limits of the nested calls made, outermost first
trace_ray[scene \in SceneSet, ray \in RaySet, t_range \in RangeSet, ray_refl_limit \in Int] ==
    Shade[scene, ray, t_range, ray_refl_limit,
          closest_intersection(scene.objs, ray, t_range)]

(***************************************************************************)
(* The state.                                                              *)
(*   args            the arguments of Renderer::new                        *)
(*   new_pc          how far main() and Renderer::new have come            *)
(*   built           the parts of the renderer that exist                  *)
(*   panic           why the main thread panicked ("" while it has not)    *)
(*   canvas, camera, rays, thread_buffers, screen   the Renderer's fields  *)
(*   canvas_mutex, camera_lock, tb_mutex   the Mutex / RwLock around them  *)
(*   mpc, frame, spawn_i, join_i   the main thread inside run()            *)
(*   wpc, wrow, wcol, band   the worker threads spawned by trace_rays      *)
(* and history variables that only record what happened:                   *)
(*   snap            the camera values a worker has computed pixels from   *)
(*   computed        the value traced for each canvas cell in this frame,  *)
(*                   and the thread that traced it                         *)
(*   prev            the frame presented last: its number, its camera and  *)
(*                   its canvas buffer                                     *)
(*   phase_count     how often each phase of run() ran in this frame       *)
(*   band_traced, band_merged   how often a worker finished its trace     *)
(*                   loop and its merge loop in this frame                 *)
(*   cam_updates     the update_camera calls so far, counted to the bound  *)
(*   call            a call of one of the scene's functions made on its    *)
(*                   own, with its arguments and its result                *)
(***************************************************************************)
VARIABLES args, new_pc, built, panic,
          canvas, camera, rays, thread_buffers, screen,
          canvas_mutex, camera_lock, tb_mutex,
          mpc, frame, spawn_i, join_i,
          wpc, wrow, wcol, band,
          snap, computed, prev, phase_count, band_traced, band_merged,
          cam_updates,
          call

newVars == <<args, new_pc, built, panic>>
rendVars == <<canvas, camera, rays, thread_buffers, screen>>
lockVars == <<canvas_mutex, camera_lock, tb_mutex>>
mainVars == <<mpc, frame, spawn_i, join_i>>
workVars == <<wpc, wrow, wcol, band>>
histVars == <<snap, computed, prev, phase_count, band_traced, band_merged,
              cam_updates>>
vars == <<newVars, rendVars, lockVars, mainVars, workVars, histVars, call>>

(***************************************************************************)
(* lib.rs: Canvas, Screen and Renderer::new.                               *)
(***************************************************************************)
\* an aspect ratio is the exact fraction num / den
AspectRatios == {[num |-> 1, den |-> 1], [num |-> 2, den |-> 1],
                 [num |-> 1, den |-> 2], [num |-> 2, den |-> 3]}

\* (screen_width as f64 / aspect_ratio) as usize
ScreenHeight(a) == (a.screen_width * a.aspect.den) \div a.aspect.num

\* DimensionsOk with the test of the height left out
DimensionsOk_WidthOnly(a) ==
    /\ a.canvas_unit_size # 0
    /\ a.screen_width % a.canvas_unit_size = 0

\* the test of Renderer::new passes; a canvas_unit_size of 0 panics in the
\* remainder itself
DimensionsOk(a) ==
    /\ a.canvas_unit_size # 0
    /\ a.screen_width % a.canvas_unit_size = 0
    /\ ScreenHeight(a) % a.canvas_unit_size = 0

Grid(height, width, v) == [r \in 1..height |-> [c \in 1..width |-> v]]

CanvasNew(screen_width, screen_height, canvas_unit_size) ==
    [buffer |-> Grid(screen_height, screen_width, 0),
     width |-> screen_width \div canvas_unit_size,
     height |-> screen_height \div canvas_unit_size]

\* screen_width as f64 / screen_height as f64; with no rows the quotient is
\* infinite or NaN and no ray reads it
AspectOf(screen_width, screen_height) ==
    IF screen_height = 0 THEN 0 ELSE RDiv(screen_width * Scale, screen_height)

\* the ray through canvas cell (row, col), rows and columns counted from 0
RayNew(cv, cam, row, col) ==
    Ray(cam.origin,
        Vec3d(RDiv((col - cv.width \div 2) * cam.vp_width, cv.width),
              RDiv((cv.height \div 2 - row) * cam.vp_height, cv.height),
              cam.vp_depth * Scale))

RaysNew(cv, cam) ==
    [r \in 1..cv.height |-> [c \in 1..cv.width |-> RayNew(cv, cam, r - 1, c - 1)]]

ThreadBuffersNew(num_threads, cv) ==
    [i \in 1..num_threads |-> Grid(cv.height, cv.width, 0)]

ScreenBuild(screen_width, screen_height) ==
    [buffer |-> [k \in 1..(screen_width * screen_height) |-> 0],
     width |-> screen_width,
     height |-> screen_height]

FreeMutex == [holder |-> 0, poisoned |-> FALSE]

\* Unlock with the guard never dropped
Unlock_Kept(m) == m

\* a MutexGuard is dropped
Unlock(m) == [m EXCEPT !.holder = 0]

FreeRwLock == [readers |-> {}, writer |-> FALSE]

\* no thread has traced the cell in this frame
NotComputed == [by |-> 0, value |-> -1]

\* no function of the scene has been called on its own
NoCall == [fn |-> ""]

NoPhases == [UpdateCamera |-> 0, ClearCanvas |-> 0, ParallelTrace |-> 0,
             Present |-> 0]

Threads == 1..args.num_threads

\* main() is about to call Renderer::new(a.num_threads, ...)
BeforeNew(a) ==
    /\ args = a
    /\ new_pc = "new"
    /\ built = {}
    /\ panic = ""
    /\ canvas = CanvasNew(0, 0, 1)
    /\ camera = CameraNew(Scene.camera_origin, 0)
    /\ rays = << >>
    /\ thread_buffers = << >>
    /\ screen = ScreenBuild(0, 0)
    /\ canvas_mutex = FreeMutex
    /\ camera_lock = FreeRwLock
    /\ tb_mutex = [i \in 1..a.num_threads |-> FreeMutex]
    /\ mpc = "idle"
    /\ frame = 0
    /\ spawn_i = 0
    /\ join_i = 0
    /\ wpc = [i \in 1..a.num_threads |-> "unspawned"]
    /\ wrow = [i \in 1..a.num_threads |-> 0]
    /\ wcol = [i \in 1..a.num_threads |-> 0]
    /\ band = [i \in 1..a.num_threads |-> [row_start |-> 0, row_end |-> 0]]
    /\ snap = [i \in 1..a.num_threads |-> {}]
    /\ computed = << >>
    /\ prev = << >>
    /\ phase_count = NoPhases
    /\ band_traced = [i \in 1..a.num_threads |-> 0]
    /\ band_merged = [i \in 1..a.num_threads |-> 0]
    /\ cam_updates = 0
    /\ call = NoCall

\* lines 279-283: the screen height is derived and the dimensions are tested
New_Validate ==
    /\ new_pc = "new"
    /\ IF DimensionsOk(args)
       THEN new_pc' = "canvas" /\ panic' = panic
       ELSE new_pc' = "panicked" /\ panic' = "dimensions"
    /\ UNCHANGED <<call, args, built, rendVars, lockVars, mainVars, workVars, histVars>>

New_Canvas ==
    /\ new_pc = "canvas"
    /\ canvas' = CanvasNew(args.screen_width, ScreenHeight(args),
                           args.canvas_unit_size)
    /\ built' = built \cup {"canvas"}
    /\ new_pc' = "camera"
    /\ UNCHANGED <<call, args, panic, camera, rays, thread_buffers, screen,
                   lockVars, mainVars, workVars, histVars>>

New_Camera ==
    /\ new_pc = "camera"
    /\ camera' = CameraNew(Scene.camera_origin,
                           AspectOf(args.screen_width, ScreenHeight(args)))
    /\ built' = built \cup {"camera"}
    /\ new_pc' = "rays"
    /\ UNCHANGED <<call, args, panic, canvas, rays, thread_buffers, screen,
                   lockVars, mainVars, workVars, histVars>>

New_Rays ==
    /\ new_pc = "rays"
    /\ rays' = RaysNew(canvas, camera)
    /\ built' = built \cup {"rays"}
    /\ new_pc' = "thread_buffers"
    /\ UNCHANGED <<call, args, panic, canvas, camera, thread_buffers, screen,
                   lockVars, mainVars, workVars, histVars>>

New_ThreadBuffers ==
    /\ new_pc = "thread_buffers"
    /\ thread_buffers' = ThreadBuffersNew(args.num_threads, canvas)
    /\ built' = built \cup {"thread_buffers"}
    /\ new_pc' = "screen"
    /\ UNCHANGED <<call, args, panic, canvas, camera, rays, screen,
                   lockVars, mainVars, workVars, histVars>>

\* Screen::build: the window opens, or minifb reports an error and build panics
New_Screen ==
    /\ new_pc = "screen"
    /\ \/ /\ screen' = ScreenBuild(args.screen_width, ScreenHeight(args))
          /\ built' = built \cup {"screen"}
          /\ new_pc' = "constructed"
          /\ panic' = panic
       \/ /\ new_pc' = "panicked"
          /\ panic' = "window"
          /\ UNCHANGED <<screen, built>>
    /\ UNCHANGED <<call, args, canvas, camera, rays, thread_buffers,
                   lockVars, mainVars, workVars, histVars>>

\* main() calls renderer.run()
Main_Run ==
    /\ new_pc = "constructed"
    /\ mpc = "idle"
    /\ mpc' = "run_check"
    /\ UNCHANGED <<call, newVars, rendVars, lockVars, frame, spawn_i, join_i,
                   workVars, histVars>>

NewArgs ==
    [num_threads : 1..2, screen_width : 0..MaxScreenWidth, aspect : AspectRatios,
     canvas_unit_size : 0..MaxUnitSize, num_samples : {1}]

InitNew == \E a \in NewArgs : BeforeNew(a)

NextNew ==
    \/ New_Validate
    \/ New_Canvas
    \/ New_Camera
    \/ New_Rays
    \/ New_ThreadBuffers
    \/ New_Screen
    \/ Main_Run

SpecNew == InitNew /\ [][NextNew]_vars

(***************************************************************************)
(* lib.rs: Renderer::run and the calls of its loop body.                   *)
(***************************************************************************)
\* RunBody with the first two calls exchanged
RunBody_ClearFirst == <<"clear", "update_camera", "trace_rays", "render_canvas">>

\* the calls of one loop iteration of run(), in the order of lines 321-324
RunBody == <<"update_camera", "clear", "trace_rays", "render_canvas">>

\* where the main thread is after the named call of the loop body returns
AfterCall(returned) ==
    LET k == CHOOSE n \in 1..Len(RunBody) : RunBody[n] = returned
    IN  IF k < Len(RunBody) THEN RunBody[k + 1] ELSE "run_check"

\* the key lists window.get_keys() returns in Spec
RunKeyLists == { << >>, <<"W">>, <<"Left", "Up">>, <<"D", "Down", "Right">> }

\* the loop condition holds: the window is open and Escape is not down
RunContinue ==
    /\ mpc = "run_check"
    /\ frame < MaxFrames
    /\ mpc' = RunBody[1]
    /\ frame' = frame + 1
    /\ phase_count' = NoPhases
    /\ band_traced' = [i \in Threads |-> 0]
    /\ band_merged' = [i \in Threads |-> 0]
    /\ snap' = [i \in Threads |-> {}]
    /\ UNCHANGED <<call, newVars, rendVars, lockVars, spawn_i, join_i, workVars,
                   computed, prev, cam_updates>>

\* the window was closed or Escape is down: run() returns
RunExit ==
    /\ mpc = "run_check"
    /\ mpc' = "exited"
    /\ UNCHANGED <<call, newVars, rendVars, lockVars, frame, spawn_i, join_i,
                   workVars, histVars>>

\* update_camera, line 329: camera.write() waits for readers and writers
CameraWrite ==
    /\ mpc = "update_camera"
    /\ camera_lock.readers = {}
    /\ ~camera_lock.writer
    /\ camera_lock' = [camera_lock EXCEPT !.writer = TRUE]
    /\ mpc' = "camera_write"
    /\ UNCHANGED <<call, newVars, rendVars, canvas_mutex, tb_mutex, frame, spawn_i,
                   join_i, workVars, histVars>>

\* update_camera, lines 331-379, and the release of the write guard
UpdateCamera ==
    /\ mpc = "camera_write"
    /\ \E keys \in RunKeyLists : camera' = update_camera(camera, keys)
    /\ camera_lock' = [camera_lock EXCEPT !.writer = FALSE]
    /\ phase_count' = [phase_count EXCEPT !.UpdateCamera = @ + 1]
    /\ mpc' = AfterCall("update_camera")
    /\ UNCHANGED <<call, newVars, canvas, rays, thread_buffers, screen, canvas_mutex,
                   tb_mutex, frame, spawn_i, join_i, workVars, snap, computed,
                   prev, band_traced, band_merged, cam_updates>>

\* Canvas::clear: every cell of the buffer is zeroed under the mutex; unwrap
\* panics on a poisoned mutex
ClearCanvas ==
    /\ mpc = "clear"
    /\ canvas_mutex.holder = 0
    /\ IF canvas_mutex.poisoned
       THEN /\ mpc' = "panicked"
            /\ panic' = "poisoned"
            /\ UNCHANGED <<canvas, phase_count>>
       ELSE /\ canvas' = [canvas EXCEPT
                             !.buffer = [r \in DOMAIN @ |-> [c \in DOMAIN @[r] |-> 0]]]
            /\ phase_count' = [phase_count EXCEPT !.ClearCanvas = @ + 1]
            /\ mpc' = AfterCall("clear")
            /\ panic' = panic
    /\ UNCHANGED <<call, args, new_pc, built, camera, rays, thread_buffers, screen,
                   lockVars, frame, spawn_i, join_i, workVars, snap, computed,
                   prev, band_traced, band_merged, cam_updates>>

(***************************************************************************)
(* lib.rs: Renderer::trace_rays, the main thread's part.                   *)
(***************************************************************************)
\* line 384
ChunkSize(height, num_threads) == height \div num_threads

\* line 393, thread_i counted from 0
RowStart(thread_i, height, num_threads) ==
    thread_i * ChunkSize(height, num_threads)

\* RowEnd with the last band no longer reaching the last row
RowEnd_NoRemainder(thread_i, height, num_threads) ==
    RowStart(thread_i, height, num_threads) + ChunkSize(height, num_threads)

\* line 394
RowEnd(thread_i, height, num_threads) ==
    IF thread_i = num_threads - 1
    THEN height
    ELSE RowStart(thread_i, height, num_threads) + ChunkSize(height, num_threads)

\* one pass of the loop of lines 386-450: the thread for band spawn_i is
\* spawned with its captured row range; the first pass also starts the call
Spawn ==
    /\ mpc = "trace_rays"
    /\ spawn_i < args.num_threads
    /\ LET i == spawn_i + 1
       IN  /\ band' = [band EXCEPT ![i] =
                          [row_start |-> RowStart(spawn_i, canvas.height, args.num_threads),
                           row_end |-> RowEnd(spawn_i, canvas.height, args.num_threads)]]
           /\ wpc' = [wpc EXCEPT ![i] = "spawned"]
    /\ IF spawn_i = 0
       THEN /\ phase_count' = [phase_count EXCEPT !.ParallelTrace = @ + 1]
            /\ computed' = Grid(canvas.height, canvas.width, NotComputed)
       ELSE UNCHANGED <<phase_count, computed>>
    /\ spawn_i' = IF spawn_i + 1 = args.num_threads THEN 0 ELSE spawn_i + 1
    /\ mpc' = IF spawn_i + 1 = args.num_threads THEN "join" ELSE mpc
    /\ join_i' = 0
    /\ UNCHANGED <<call, newVars, rendVars, lockVars, frame, wrow, wcol, snap, prev,
                   band_traced, band_merged, cam_updates>>

\* JoinReady with join() returning at once
JoinReady_NoWait(i) == TRUE

\* JoinOk with the result of join() ignored
JoinOk_Ignored(i) == TRUE

\* handle.join() returns once the thread has ended
JoinReady(i) == wpc[i] \in {"finished", "panicked"}

\* the joined thread ended normally (join() gave Ok)
JoinOk(i) == wpc[i] # "panicked"

\* one pass of the loop of lines 452-454: join() the next handle and unwrap
Join ==
    /\ mpc = "join"
    /\ JoinReady(join_i + 1)
    /\ IF JoinOk(join_i + 1)
       THEN /\ join_i' = IF join_i + 1 = args.num_threads THEN 0 ELSE join_i + 1
            /\ mpc' = IF join_i + 1 = args.num_threads THEN AfterCall("trace_rays") ELSE mpc
            /\ panic' = panic
       ELSE /\ mpc' = "panicked"
            /\ panic' = "worker"
            /\ join_i' = join_i
    /\ UNCHANGED <<call, args, new_pc, built, rendVars, lockVars, frame, spawn_i,
                   workVars, histVars>>

(***************************************************************************)
(* lib.rs: Renderer::render_canvas.                                        *)
(***************************************************************************)
\* RenderWrites with only the first pixel of each block written
RenderWrites_FirstPixelOnly(scr, cv, canvas_unit_size) ==
    {[seq |-> canvas_row * cv.width + canvas_col,
      index |-> canvas_row * canvas_unit_size * scr.width
                    + canvas_col * canvas_unit_size,
      value |-> cv.buffer[canvas_row + 1][canvas_col + 1]] :
        canvas_row \in 0..(cv.height - 1), canvas_col \in 0..(cv.width - 1)}

\* the assignments of line 467 made by the loops of lines 460-470, one record
\* for each: its place in the order of the loops, the index of screen.buffer
\* it writes and the value written
RenderWrites(scr, cv, canvas_unit_size) ==
    {[seq |-> ((w[1] * cv.width + w[2]) * canvas_unit_size + w[3])
                  * canvas_unit_size + w[4],
      index |-> (w[1] * canvas_unit_size + w[3]) * scr.width
                    + w[2] * canvas_unit_size + w[4],
      value |-> cv.buffer[w[1] + 1][w[2] + 1]] :
        w \in (0..(cv.height - 1)) \X (0..(cv.width - 1))
                 \X (0..(canvas_unit_size - 1)) \X (0..(canvas_unit_size - 1))}

\* the screen buffer after the loops: each entry holds the value of the last
\* assignment to its index, or what it held when there is none
RenderedBuffer(scr, cv, canvas_unit_size) ==
    [k \in DOMAIN scr.buffer |->
        LET ws == {w \in RenderWrites(scr, cv, canvas_unit_size) : w.index = k - 1}
        IN  IF ws = {} THEN scr.buffer[k]
            ELSE (CHOOSE w \in ws : \A w2 \in ws : w2.seq <= w.seq).value]

RenderCanvas ==
    /\ mpc = "render_canvas"
    /\ canvas_mutex.holder = 0
    /\ IF canvas_mutex.poisoned
       THEN /\ mpc' = "panicked"
            /\ panic' = "poisoned"
            /\ UNCHANGED <<screen, phase_count, prev>>
       ELSE /\ screen' = [screen EXCEPT
                             !.buffer = RenderedBuffer(screen, canvas, args.canvas_unit_size)]
            /\ phase_count' = [phase_count EXCEPT !.Present = @ + 1]
            /\ prev' = << [frame |-> frame, cam |-> camera,
                                 buffer |-> canvas.buffer] >>
            /\ mpc' = AfterCall("render_canvas")
            /\ panic' = panic
    /\ UNCHANGED <<call, args, new_pc, built, canvas, camera, rays, thread_buffers,
                   lockVars, frame, spawn_i, join_i, workVars, snap, computed,
                   band_traced, band_merged, cam_updates>>

(***************************************************************************)
(* lib.rs: Renderer::trace_rays, the closure each spawned thread runs      *)
(* (lines 398-448).  Thread i works on band i, rows band[i].row_start up   *)
(* to band[i].row_end - 1.                                                 *)
(***************************************************************************)
\* the values rng.random::<f64>() - 0.5 is drawn from
JitterSet == {-500, 0, 499}

\* the jitter pairs of the samples of one pixel: drawn only when
\* num_samples > 1, else 0.0
JitterChoices(num_samples) ==
    IF num_samples > 1
    THEN [1..num_samples -> JitterSet \X JitterSet]
    ELSE {[k \in 1..num_samples |-> <<0, 0>>]}

\* Vec3d::new(jitter_x, jitter_y, 0.0) * 0.0005
JitterVec(j) == Vec3d(RDiv(j[1] * 5, 10000), RDiv(j[2] * 5, 10000), 0)

\* lines 419-428: the colour of one sample
SampleColor(cam, ray, j) ==
    trace_ray[Scene,
              Ray(cam.origin, MatVec[cam.rot_m, VAdd(ray.dir, JitterVec(j))]),
              Range(Abs(cam.vp_depth) * Scale, 100 * Scale),
              2].color

\* lines 430-432: one sample's colour is added to total_color
AddColor[color \in Nat, total_color \in Seq(Nat)] ==
    <<total_color[1] + ColorR(color), total_color[2] + ColorG(color),
      total_color[3] + ColorB(color)>>

\* lines 410-433: the channel sums of the samples from sample k on
RECURSIVE SumSamples(_, _, _, _)
SumSamples(cam, ray, jit, k) ==
    IF k > Len(jit) THEN <<0, 0, 0>>
    ELSE AddColor[SampleColor(cam, ray, jit[k]), SumSamples(cam, ray, jit, k + 1)]

\* line 435, for num_samples > 0
Average[total_color \in Seq(Nat), num_samples \in Nat] ==
    Pack(Min(total_color[1] \div num_samples, 255),
         Min(total_color[2] \div num_samples, 255),
         Min(total_color[3] \div num_samples, 255))

\* lines 410-435: the value stored for one pixel
PixelValue(cam, ray, num_samples, jit) ==
    Average[SumSamples(cam, ray, jit, 1), num_samples]

\* the loops of lines 406-407 have a pixel left for thread i
HasPixel(i) == wrow[i] < band[i].row_end /\ canvas.width > 0

\* line 399: camera.read() waits while the camera is being written
W_CameraRead ==
    \E i \in Threads :
    /\ wpc[i] = "spawned"
    /\ ~camera_lock.writer
    /\ camera_lock' = [camera_lock EXCEPT !.readers = @ \cup {i}]
    /\ wpc' = [wpc EXCEPT ![i] = "lock_buffer"]
    /\ UNCHANGED <<call, newVars, rendVars, canvas_mutex, tb_mutex, mainVars,
                   wrow, wcol, band, histVars>>

\* line 400: the thread locks its own buffer; unwrap panics on a poisoned
\* mutex and the read guard is dropped by the unwinding
W_LockBuffer ==
    \E i \in Threads :
    /\ wpc[i] = "lock_buffer"
    /\ tb_mutex[i].holder = 0
    /\ IF tb_mutex[i].poisoned
       THEN /\ wpc' = [wpc EXCEPT ![i] = "panicked"]
            /\ camera_lock' = [camera_lock EXCEPT !.readers = @ \ {i}]
            /\ UNCHANGED <<tb_mutex, wrow, wcol>>
       ELSE /\ wpc' = [wpc EXCEPT ![i] = "trace"]
            /\ tb_mutex' = [tb_mutex EXCEPT ![i].holder = i]
            /\ wrow' = [wrow EXCEPT ![i] = band[i].row_start]
            /\ wcol' = [wcol EXCEPT ![i] = 0]
            /\ UNCHANGED camera_lock
    /\ UNCHANGED <<call, newVars, rendVars, canvas_mutex, mainVars, band, histVars>>

\* lines 408-435 for the pixel (wrow[i], wcol[i]): its samples are traced with
\* the camera as it is now and the average is stored in the thread's buffer.
\* With num_samples = 0 the division of line 435 panics; the unwinding
\* poisons the thread's buffer mutex and drops the read guard.
W_TracePixel ==
    \E i \in Threads :
    /\ wpc[i] = "trace"
    /\ HasPixel(i)
    /\ IF args.num_samples = 0
       THEN /\ wpc' = [wpc EXCEPT ![i] = "panicked"]
            /\ tb_mutex' = [tb_mutex EXCEPT ![i] = [holder |-> 0, poisoned |-> TRUE]]
            /\ camera_lock' = [camera_lock EXCEPT !.readers = @ \ {i}]
            /\ UNCHANGED <<thread_buffers, wrow, wcol, snap, computed>>
       ELSE /\ \E jit \in JitterChoices(args.num_samples) :
                 LET v == PixelValue(camera, rays[wrow[i] + 1][wcol[i] + 1],
                                     args.num_samples, jit)
                 IN  /\ thread_buffers' = [thread_buffers EXCEPT
                                             ![i][wrow[i] + 1][wcol[i] + 1] = v]
                     /\ computed' = [computed EXCEPT
                                       ![wrow[i] + 1][wcol[i] + 1] =
                                           [by |-> i, value |-> v]]
            /\ snap' = [snap EXCEPT ![i] = @ \cup {camera}]
            /\ IF wcol[i] + 1 < canvas.width
               THEN /\ wcol' = [wcol EXCEPT ![i] = @ + 1]
                    /\ wrow' = wrow
               ELSE /\ wcol' = [wcol EXCEPT ![i] = 0]
                    /\ wrow' = [wrow EXCEPT ![i] = @ + 1]
            /\ UNCHANGED <<wpc, tb_mutex, camera_lock>>
    /\ UNCHANGED <<call, newVars, canvas, camera, rays, screen, canvas_mutex,
                   mainVars, band, prev, phase_count, band_traced, band_merged,
                   cam_updates>>

\* the loops of lines 406-437 are over
W_TraceDone ==
    \E i \in Threads :
    /\ wpc[i] = "trace"
    /\ ~HasPixel(i)
    /\ wpc' = [wpc EXCEPT ![i] = "lock_canvas"]
    /\ band_traced' = [band_traced EXCEPT ![i] = @ + 1]
    /\ UNCHANGED <<call, newVars, rendVars, lockVars, mainVars, wrow, wcol, band,
                   snap, computed, prev, phase_count, band_merged, cam_updates>>

\* line 441: the thread locks the canvas buffer; unwrap panics on a poisoned
\* mutex, which poisons the thread's own buffer mutex in turn
W_LockCanvas ==
    \E i \in Threads :
    /\ wpc[i] = "lock_canvas"
    /\ canvas_mutex.holder = 0
    /\ IF canvas_mutex.poisoned
       THEN /\ wpc' = [wpc EXCEPT ![i] = "panicked"]
            /\ tb_mutex' = [tb_mutex EXCEPT ![i] = [holder |-> 0, poisoned |-> TRUE]]
            /\ camera_lock' = [camera_lock EXCEPT !.readers = @ \ {i}]
            /\ UNCHANGED canvas_mutex
       ELSE /\ wpc' = [wpc EXCEPT ![i] = "merge"]
            /\ canvas_mutex' = [canvas_mutex EXCEPT !.holder = i]
            /\ UNCHANGED <<tb_mutex, camera_lock>>
    /\ UNCHANGED <<call, newVars, rendVars, mainVars, wrow, wcol, band, histVars>>

\* MergeRows with every row of the canvas copied
MergeRows_All(i) == 0..(canvas.height - 1)

\* Merged with the row range ignored
Merged_AllRows(buffer, thread_buffer, rows, width) ==
    [r \in DOMAIN buffer |-> [c \in DOMAIN buffer[r] |->
        IF r <= Len(thread_buffer) /\ c - 1 < width
        THEN thread_buffer[r][c]
        ELSE buffer[r][c]]]

\* the rows the merge loop of thread i copies (line 443)
MergeRows(i) == {row \in 0..(canvas.height - 1) :
                    band[i].row_start <= row /\ row < band[i].row_end}

\* the canvas buffer after the loops of lines 443-447
Merged(buffer, thread_buffer, rows, width) ==
    [r \in DOMAIN buffer |-> [c \in DOMAIN buffer[r] |->
        IF (r - 1) \in rows /\ c - 1 < width
        THEN thread_buffer[r][c]
        ELSE buffer[r][c]]]

W_Merge ==
    \E i \in Threads :
    /\ wpc[i] = "merge"
    /\ canvas' = [canvas EXCEPT
                     !.buffer = Merged(@, thread_buffers[i], MergeRows(i), canvas.width)]
    /\ band_merged' = [band_merged EXCEPT ![i] = @ + 1]
    /\ wpc' = [wpc EXCEPT ![i] = "exiting"]
    /\ UNCHANGED <<call, newVars, camera, rays, thread_buffers, screen, lockVars,
                   mainVars, wrow, wcol, band, snap, computed, prev,
                   phase_count, band_traced, cam_updates>>

\* the closure returns: the canvas guard, the buffer guard and the read
\* guard are dropped
W_Exit ==
    \E i \in Threads :
    /\ wpc[i] = "exiting"
    /\ canvas_mutex' = Unlock(canvas_mutex)
    /\ tb_mutex' = [tb_mutex EXCEPT ![i] = Unlock(@)]
    /\ camera_lock' = [camera_lock EXCEPT !.readers = @ \ {i}]
    /\ wpc' = [wpc EXCEPT ![i] = "finished"]
    /\ UNCHANGED <<call, newVars, rendVars, mainVars, wrow, wcol, band, histVars>>

(***************************************************************************)
(* The render loop: a constructed renderer inside run().                   *)
(***************************************************************************)
\* the configurations of Spec: a canvas 2 cells wide and 3 or 1 cells high,
\* shown with blocks of 1 or 2 pixels, with a sample count of 0 or 1
RunArgs ==
    {[num_threads |-> n, screen_width |-> 2 * u, aspect |-> [num |-> 2, den |-> d],
      canvas_unit_size |-> u, num_samples |-> s] :
        n \in 1..MaxThreads, u \in 1..2, d \in {1, 3}, s \in 0..1}

\* the state Renderer::new(a) returns in, and run() has been called
Constructed(a) ==
    /\ args = a
    /\ new_pc = "constructed"
    /\ built = {"canvas", "camera", "rays", "thread_buffers", "screen"}
    /\ panic = ""
    /\ canvas = CanvasNew(a.screen_width, ScreenHeight(a), a.canvas_unit_size)
    /\ camera = CameraNew(Scene.camera_origin,
                          AspectOf(a.screen_width, ScreenHeight(a)))
    /\ rays = RaysNew(canvas, camera)
    /\ thread_buffers = ThreadBuffersNew(a.num_threads, canvas)
    /\ screen = ScreenBuild(a.screen_width, ScreenHeight(a))
    /\ canvas_mutex = FreeMutex
    /\ camera_lock = FreeRwLock
    /\ tb_mutex = [i \in 1..a.num_threads |-> FreeMutex]
    /\ mpc = "run_check"
    /\ frame = 0
    /\ spawn_i = 0
    /\ join_i = 0
    /\ wpc = [i \in 1..a.num_threads |-> "unspawned"]
    /\ wrow = [i \in 1..a.num_threads |-> 0]
    /\ wcol = [i \in 1..a.num_threads |-> 0]
    /\ band = [i \in 1..a.num_threads |-> [row_start |-> 0, row_end |-> 0]]
    /\ snap = [i \in 1..a.num_threads |-> {}]
    /\ computed = << >>
    /\ prev = << >>
    /\ phase_count = NoPhases
    /\ band_traced = [i \in 1..a.num_threads |-> 0]
    /\ band_merged = [i \in 1..a.num_threads |-> 0]
    /\ cam_updates = 0
    /\ call = NoCall

Init == \E a \in RunArgs : Constructed(a)

Next ==
    \/ RunContinue
    \/ RunExit
    \/ CameraWrite
    \/ UpdateCamera
    \/ ClearCanvas
    \/ Spawn
    \/ Join
    \/ RenderCanvas
    \/ W_CameraRead
    \/ W_LockBuffer
    \/ W_TracePixel
    \/ W_TraceDone
    \/ W_LockCanvas
    \/ W_Merge
    \/ W_Exit

Spec == Init /\ [][Next]_vars

\* the same program, its canvas shown with blocks of 1 pixel, under fair
\* scheduling: while some thread can take a step, a step is taken
InitLive == \E a \in RunArgs : a.canvas_unit_size = 1 /\ Constructed(a)

LiveSpec == InitLive /\ [][Next]_vars /\ WF_vars(Next)

(***************************************************************************)
(* The band split for every canvas height and thread count: run() up to    *)
(* the end of the spawn loop of trace_rays.                                *)
(***************************************************************************)
\* a canvas 1 cell wide and h cells high
BandArgs ==
    {[num_threads |-> n, screen_width |-> 1, aspect |-> [num |-> 1, den |-> h],
      canvas_unit_size |-> 1, num_samples |-> 1] :
        n \in 1..MaxBandThreads, h \in 0..MaxBandHeight}

InitBands == \E a \in BandArgs : Constructed(a)

NextBands ==
    \/ RunContinue
    \/ CameraWrite
    \/ UpdateCamera
    \/ ClearCanvas
    \/ Spawn

SpecBands == InitBands /\ [][NextBands]_vars

(***************************************************************************)
(* The camera over many frames: the update_camera call of each loop        *)
(* iteration, with the rest of the iteration left out.                     *)
(***************************************************************************)
\* the lists of at most two different keys out of ks
KeyLists(ks) ==
    {<< >>} \cup {<<k>> : k \in ks}
            \cup {<<p[1], p[2]>> : p \in {q \in ks \X ks : q[1] # q[2]}}

\* the key lists window.get_keys() returns to update_camera call number n + 1
CameraKeyLists(n) ==
    IF n < MaxMoveUpdates THEN KeyLists(Keys)
    ELSE KeyLists(PitchKeys \cup {"Space"})

\* update_camera from the write lock to its release
CameraStep ==
    /\ mpc = "run_check"
    /\ camera_lock = FreeRwLock
    /\ \E keys \in CameraKeyLists(cam_updates) :
           camera' = update_camera(camera, keys)
    /\ cam_updates' = Min(cam_updates + 1, MaxMoveUpdates)
    /\ UNCHANGED <<call, newVars, canvas, rays, thread_buffers, screen, lockVars,
                   mainVars, workVars, snap, computed, prev, phase_count,
                   band_traced, band_merged>>

InitCamera ==
    Constructed([num_threads |-> 1, screen_width |-> 2,
                 aspect |-> [num |-> 2, den |-> 3], canvas_unit_size |-> 1,
                 num_samples |-> 1])

NextCamera == CameraStep

SpecCamera == InitCamera /\ [][NextCamera]_vars

(***************************************************************************)
(* The camera when it looks and moves in turn: a few update_camera calls   *)
(* whose keys turn the camera left, pitch it up and move it.               *)
(***************************************************************************)
MoveStep ==
    /\ mpc = "run_check"
    /\ camera_lock = FreeRwLock
    /\ cam_updates < MaxPoseUpdates
    /\ \E keys \in KeyLists(MoveKeys \cup {"Left", "Up"}) :
           camera' = update_camera(camera, keys)
    /\ cam_updates' = cam_updates + 1
    /\ UNCHANGED <<call, newVars, canvas, rays, thread_buffers, screen, lockVars,
                   mainVars, workVars, snap, computed, prev, phase_count,
                   band_traced, band_merged>>

SpecMove == InitCamera /\ [][MoveStep]_vars

(***************************************************************************)
(* The functions of the scene and of linalg.rs called on their own, each   *)
(* with arguments out of a small set: the state after the call holds the   *)
(* arguments and the result.                                               *)
(***************************************************************************)
\* Mat3::rotation_matrix about the coordinate axes and the right axis of a
\* camera turned by 5 and by 45 degrees, by quarter turns and by pitches the
\* camera can have
Call_rotation_matrix ==
    /\ call = NoCall
    /\ \E axis \in {Vec3d(Scale, 0, 0), Vec3d(0, Scale, 0), Vec3d(0, 0, Scale),
                    MatVec[rotation_y(5), Vec3d(Scale, 0, 0)],
                    MatVec[rotation_y(45), Vec3d(Scale, 0, 0)]},
          angle \in {0, 90, 180, 270, 3, 45, MaxPitch, MinPitch} :
           call' = [fn |-> "rotation_matrix", axis |-> axis, angle |-> angle,
                    result |-> rotation_matrix[axis, angle]]
    /\ UNCHANGED <<newVars, rendVars, lockVars, mainVars, workVars, histVars>>

\* spheres, rays and ranges for the intersection functions: a sphere in front
\* of the origin, a second one in the same place and one behind it; rays
\* from the origin and from the centre of the first sphere, straight and
\* slanted; the range of the renderer, a range that ends where the first
\* sphere is hit, one that holds only the far root and one that holds none
CallSpheres ==
    {[center |-> Vec3d(0, 0, -5000), radius |-> 1000, color |-> Red,
      material |-> [kind |-> "Matte"]],
     [center |-> Vec3d(0, 0, -5000), radius |-> 1000, color |-> Lime,
      material |-> [kind |-> "Matte"]],
     [center |-> Vec3d(0, 0, -8000), radius |-> 1000, color |-> Navy,
      material |-> [kind |-> "Matte"]]}

CallRays ==
    {Ray(o, d) : o \in {Vec3d(0, 0, 0), Vec3d(0, 0, -5000)},
                 d \in {Vec3d(0, 0, -1000), Vec3d(0, 0, 1000),
                        Vec3d(200, 0, -1000), Vec3d(300, 0, -1000)}}

CallRanges ==
    {Range(1000, 100000), Range(1000, 4000), Range(4500, 100000), Range(0, 3000)}

Call_get_closest_intersection ==
    /\ call = NoCall
    /\ \E sphere \in CallSpheres, ray \in CallRays, t_range \in CallRanges :
           call' = [fn |-> "get_closest_intersection", sphere |-> sphere,
                    ray |-> ray, t_range |-> t_range,
                    result |-> SphereIntersection(sphere, ray, t_range)]
    /\ UNCHANGED <<newVars, rendVars, lockVars, mainVars, workVars, histVars>>

\* Triangle::get_closest_intersection on a triangle in the plane z = -2 with
\* its legs along x and y and on one tilted about its second leg; rays from
\* the origin and from a point of the plane z = -2: into the triangles, onto
\* their edges, past them, parallel to their planes and away from them
Call_Triangle_get_closest_intersection ==
    /\ call = NoCall
    /\ \E triangle \in
              {[ps |-> <<Vec3d(-1000, -1000, -2000), Vec3d(1000, -1000, z),
                         Vec3d(-1000, 1000, -2000)>>,
                color |-> Red, material |-> [kind |-> "Matte"]] :
                  z \in {-2000, -3000}},
          ray \in {Ray(o, d) :
                      o \in {Vec3d(0, 0, 0), Vec3d(0, 0, -2000)},
                      d \in {Vec3d(0, 0, -1000), Vec3d(-200, -200, -1000),
                             Vec3d(-500, 200, -1000), Vec3d(400, 400, -1000),
                             Vec3d(-800, 0, -1000), Vec3d(0, -800, -1000),
                             Vec3d(1000, 0, 0), Vec3d(0, 1000, 0),
                             Vec3d(2000, 0, -1000), Vec3d(0, 0, 1000)}},
          t_range \in CallRanges :
           call' = [fn |-> "Triangle::get_closest_intersection",
                    triangle |-> triangle, ray |-> ray, t_range |-> t_range,
                    result |-> TriangleIntersection(triangle, ray, t_range)]
    /\ UNCHANGED <<newVars, rendVars, lockVars, mainVars, workVars, histVars>>

\* closest_intersection on every list of at most MaxObjs of the spheres
Call_closest_intersection ==
    /\ call = NoCall
    /\ \E objs \in UNION {[1..n -> CallSpheres] : n \in 0..MaxObjs},
          ray \in CallRays,
          t_range \in CallRanges :
           call' = [fn |-> "closest_intersection", objs |-> objs,
                    ray |-> ray, t_range |-> t_range,
                    result |-> closest_intersection(objs, ray, t_range)]
    /\ UNCHANGED <<newVars, rendVars, lockVars, mainVars, workVars, histVars>>

\* trace_ray from the origin at the middle of sphere A, at its side, and
\* past it
Call_trace_ray ==
    /\ call = NoCall
    /\ \E scene \in CallScenes, limit \in 0..MaxReflLimit,
          ray \in {Ray(Vec3d(0, 0, 0), d) :
                      d \in {Vec3d(0, 0, -1000), Vec3d(300, 0, -1000),
                             Vec3d(0, 1000, 0)}} :
           call' = [fn |-> "trace_ray", scene |-> scene, ray |-> ray,
                    t_range |-> Range(1000, 100000), ray_refl_limit |-> limit,
                    result |-> trace_ray[scene, ray, Range(1000, 100000), limit]]
    /\ UNCHANGED <<newVars, rendVars, lockVars, mainVars, workVars, histVars>>

NextCalls ==
    \/ Call_get_closest_intersection
    \/ Call_Triangle_get_closest_intersection
    \/ Call_closest_intersection
    \/ Call_rotation_matrix
    \/ Call_trace_ray

SpecCalls == InitCamera /\ [][NextCalls]_vars

(***************************************************************************)
(* Properties.                                                             *)
(***************************************************************************)
\* C1: within a frame every worker computes its pixels from one and the same
\* camera value: the cameras read by the workers of the frame are at most
\* one, the camera is still that value while a worker holds its read guard,
\* and as long as a read guard is held the camera is not being written and
\* the main thread has not left trace_rays
C1_CameraSnapshot ==
    /\ Cardinality(UNION {snap[i] : i \in Threads}) <= 1
    /\ \A i \in Threads : i \in camera_lock.readers => snap[i] \subseteq {camera}
    /\ camera_lock.readers # {} =>
          /\ ~camera_lock.writer
          /\ mpc \in {"trace_rays", "join", "panicked"}

\* two workers have traced pixels in the second frame, whose camera differs
\* from the camera of the first frame
C1_Witness ==
    /\ args.num_threads > 1
    /\ \A i \in Threads : snap[i] # {}
    /\ prev # << >>
    /\ prev[1].cam # camera

\* C2: render_canvas starts only after every worker of the frame has ended,
\* having traced its band and merged it, with no guard still held
C2_PresentAfterWorkers ==
    mpc = "render_canvas" =>
        /\ \A i \in Threads :
              /\ wpc[i] = "finished"
              /\ band_traced[i] = 1
              /\ band_merged[i] = 1
        /\ camera_lock.readers = {}
        /\ canvas_mutex.holder = 0

C2_Witness ==
    /\ mpc = "render_canvas"
    /\ args.num_threads > 1
    /\ canvas.height > 1

\* C3: once trace_rays has assigned the bands, they start at row 0, each
\* starts where the one before ends, the last ends at the canvas height,
\* every row lies in exactly one band, every band but the last has
\* height / num_threads rows and the last has the remainder in addition
C3_BandsPartition ==
    mpc = "join" =>
        LET n == args.num_threads
            h == canvas.height
        IN  /\ band[1].row_start = 0
            /\ band[n].row_end = h
            /\ \A i \in 1..n : band[i].row_start <= band[i].row_end
            /\ \A i \in 1..(n - 1) : band[i].row_end = band[i + 1].row_start
            /\ \A row \in 0..(h - 1) :
                  Cardinality({i \in 1..n : /\ band[i].row_start <= row
                                            /\ row < band[i].row_end}) = 1
            /\ \A i \in 1..(n - 1) :
                  band[i].row_end - band[i].row_start = h \div n
            /\ band[n].row_end - band[n].row_start = (h \div n) + (h % n)

\* the bands are assigned with more threads than rows
C3_Witness ==
    /\ mpc = "join"
    /\ canvas.height > 0
    /\ args.num_threads > canvas.height

\* C4: when trace_rays has returned, every cell of the canvas holds the value
\* traced for it in this frame, and the thread that traced it is the one
\* whose band holds the row
C4_CanvasHoldsBandValues ==
    mpc = "render_canvas" =>
        \A r \in 1..canvas.height : \A c \in 1..canvas.width :
            /\ {i \in Threads : /\ band[i].row_start <= r - 1
                                /\ r - 1 < band[i].row_end} = {computed[r][c].by}
            /\ canvas.buffer[r][c] = computed[r][c].value

\* trace_rays has returned in a frame whose image differs from the one before
C4_Witness ==
    /\ mpc = "render_canvas"
    /\ args.num_threads > 1
    /\ prev # << >>
    /\ prev[1].buffer # canvas.buffer

\* C5: a loop iteration that has started reaches its end, unless a worker
\* panics, and run() returns only from the test of the loop condition, when
\* no thread of a frame is running
C5_FrameCompletes ==
    /\ (mpc = "update_camera") ~>
           (mpc = "run_check" \/ \E i \in Threads : wpc[i] = "panicked")
    /\ [][mpc' = "exited" =>
              /\ mpc = "run_check"
              /\ \A i \in Threads : wpc[i] \in {"unspawned", "finished"}]_vars

\* run() has returned after a frame of two workers was presented
C5_Witness ==
    /\ mpc = "exited"
    /\ args.num_threads > 1
    /\ phase_count.Present = 1

\* C6: once a worker has panicked, trace_rays does not return: the main
\* thread is still inside it or has panicked on the join, and the frame is
\* not presented
C6_WorkerPanicFailsFrame ==
    (\E i \in Threads : wpc[i] = "panicked") =>
        /\ mpc \in {"trace_rays", "join", "panicked"}
        /\ mpc = "panicked" => panic = "worker"
        /\ phase_count.Present = 0
        /\ prev # << >> => prev[1].frame < frame

\* the main thread has panicked on the join of a worker after another worker
\* has merged its band
C6_Witness ==
    /\ mpc = "panicked"
    /\ \E i \in Threads : wpc[i] = "panicked"
    /\ \E i \in Threads : band_merged[i] = 1

\* C7: with one sample per pixel the canvas trace_rays returns is a function
\* of the camera alone, and so equals the canvas of the frame before when the
\* camera is the same
C7_Deterministic ==
    (mpc = "render_canvas" /\ args.num_samples = 1) =>
        /\ \A r \in 1..canvas.height : \A c \in 1..canvas.width :
              canvas.buffer[r][c] = PixelValue(camera, rays[r][c], 1, <<<<0, 0>>>>)
        /\ (prev # << >> /\ prev[1].cam = camera) =>
              prev[1].buffer = canvas.buffer

\* a second frame of two workers has been traced with the camera of the first
C7_Witness ==
    /\ mpc = "render_canvas"
    /\ args.num_samples = 1
    /\ args.num_threads > 1
    /\ canvas.height > 1
    /\ prev # << >>
    /\ prev[1].cam = camera

\* C8: when canvas_unit_size does not divide screen_width and the derived
\* height, Renderer::new panics with nothing built and run() is never
\* called; when it divides both, the test passes and the canvas is created
C8_BadDimensionsAbort ==
    LET u == args.canvas_unit_size
        divides == /\ u # 0
                   /\ \E k \in 0..args.screen_width : k * u = args.screen_width
                   /\ \E k \in 0..ScreenHeight(args) : k * u = ScreenHeight(args)
    IN  /\ (new_pc # "new" /\ ~divides) =>
              /\ new_pc = "panicked"
              /\ panic = "dimensions"
              /\ built = {}
              /\ mpc = "idle"
        /\ (new_pc # "new" /\ divides) =>
              /\ panic # "dimensions"
              /\ new_pc # "canvas" => "canvas" \in built

\* Renderer::new has panicked on a unit size that divides the width alone
C8_Witness ==
    /\ new_pc = "panicked"
    /\ panic = "dimensions"
    /\ args.canvas_unit_size > 1
    /\ args.screen_width > 0
    /\ args.screen_width % args.canvas_unit_size = 0

\* C9 as amended: in a loop iteration the main thread runs UpdateCamera,
\* ClearCanvas, the start of ParallelTrace and Present in this order and at
\* most once each, every band is traced once and then merged once, after
\* the start of ParallelTrace and before Present, a finished iteration has
\* run them all, and update_camera starts only after the frame before has
\* been presented
C9_PhaseOrder ==
    /\ \A ph \in DOMAIN phase_count : phase_count[ph] <= 1
    /\ phase_count.ClearCanvas <= phase_count.UpdateCamera
    /\ phase_count.ParallelTrace <= phase_count.ClearCanvas
    /\ \A i \in Threads :
          /\ band_merged[i] <= band_traced[i]
          /\ band_traced[i] <= phase_count.ParallelTrace
          /\ phase_count.Present <= band_merged[i]
    /\ (mpc = "run_check" /\ frame > 0) => phase_count.Present = 1
    /\ mpc \in {"update_camera", "camera_write"} =>
          /\ phase_count = NoPhases
          /\ frame > 1 => (prev # << >> /\ prev[1].frame = frame - 1)

\* a second iteration of two workers has finished
C9_Witness ==
    /\ mpc = "run_check"
    /\ frame > 1
    /\ args.num_threads > 1

\* C9 as stated: the phases follow one another, so no band is merged before
\* every band has been traced
C9_MergeAfterAllTraced ==
    /\ C9_PhaseOrder
    /\ \A i \in Threads :
          (wpc[i] \in {"merge", "exiting"} \/ band_merged[i] = 1) =>
              \A j \in Threads : band_traced[j] = 1

\* C10: the pitch of the camera lies between -35 and 89 degrees
C10_PitchClamped ==
    /\ -35 <= camera.x_rot
    /\ camera.x_rot <= 89

\* the pitch has been stopped at the upper clamp
C10_Witness ==
    /\ cam_updates > 0
    /\ camera.x_rot = 89

\* C11: no update_camera call changes the y component of the camera origin,
\* whatever keys are pressed and however the camera is turned and pitched:
\* it is always the y of the scene's camera_origin
C11_OriginYFixed ==
    camera.origin.y = Scene.camera_origin.y

\* the camera has been turned and pitched up in one update and has moved
\* forward in the next, along an axis that points upwards
C11_Witness ==
    LET pitched == update_camera(CameraNew(Scene.camera_origin, camera.vp_width),
                                 <<"Left", "Up">>)
    IN  /\ MatVec[pitched.rot_m, Vec3d(0, 0, -Scale)].y # 0
        /\ camera = update_camera(pitched, <<"W">>)

\* C12: after an update rot_m is what the rebuild gives for a new camera that
\* has the current yaw and pitch, so it depends on y_rot and x_rot alone and
\* not on the keys pressed before or on the rot_m before
C12_RotationRebuilt ==
    cam_updates > 0 =>
        camera.rot_m =
            RebuildRotation[[CameraNew(Scene.camera_origin, Scale) EXCEPT
                                !.y_rot = camera.y_rot,
                                !.x_rot = camera.x_rot]].rot_m

\* the pitch has come back from the lower clamp, after the camera was turned
C12_Witness ==
    /\ cam_updates > 0
    /\ camera.y_rot # 0
    /\ camera.x_rot = MinPitch + x_rot_speed
    /\ camera.rot_m # Mat3Identity


\* C17 as stated: for a coordinate axis and a quarter turn, the matrix of
\* Mat3::rotation_matrix equals the matrix of rotation_x, rotation_y or
\* rotation_z for the same angle, entry for entry
C17_MatchesAxisRotations ==
    (/\ call.fn = "rotation_matrix"
     /\ call.angle \in {0, 90, 180, 270}
     /\ call.axis \in {Vec3d(Scale, 0, 0), Vec3d(0, Scale, 0), Vec3d(0, 0, Scale)}) =>
        call.result = CASE call.axis.x = Scale -> rotation_x(call.angle)
                        [] call.axis.y = Scale -> rotation_y(call.angle)
                        [] OTHER -> rotation_z(call.angle)


C14_NoneIffNoHit ==
    call.fn = "closest_intersection" =>
        (call.result.obj = 0 <=>
            \A j \in 1..Len(call.objs) :
                SphereIntersection(call.objs[j], call.ray, call.t_range) = << >>)

\* C20: Sphere::get_closest_intersection returns none when the discriminant
\* is negative or neither root lies in [t_min, t_max], and else the smallest
\* root that lies in the range; the sphere at (0, 0, -5) of radius 1 is hit
\* at t = 4 by the ray from the origin along -z
C20_SmallerRootInRange ==
    call.fn = "get_closest_intersection" =>
        LET c_o == VSub(call.ray.origin, call.sphere.center)
            a == Dot(call.ray.dir, call.ray.dir)
            b == 2 * Dot(c_o, call.ray.dir)
            c == Dot(c_o, c_o) - FMul(call.sphere.radius, call.sphere.radius)
            discnm == FMul(b, b) - 4 * FMul(a, c)
            roots == IF discnm < 0 THEN {}
                     ELSE {FDiv(-b + FSqrt(discnm), 2 * a),
                           FDiv(-b - FSqrt(discnm), 2 * a)}
            hits == {t \in roots : /\ call.t_range.min <= t
                                   /\ t <= call.t_range.max}
        IN  /\ hits = {} => call.result = << >>
            /\ hits # {} =>
                  /\ call.result # << >>
                  /\ call.result[1] \in hits
                  /\ \A t \in hits : call.result[1] <= t
            /\ (/\ call.sphere.center = Vec3d(0, 0, -5000)
                /\ call.ray = Ray(Vec3d(0, 0, 0), Vec3d(0, 0, -1000))
                /\ call.t_range = Range(1000, 100000)) =>
                  call.result = <<4000>>

\* the ray from the origin along -z has both roots, 4 and 6, in the range
\* and the smaller one is returned
C20_Witness ==
    /\ call.fn = "get_closest_intersection"
    /\ call.ray = Ray(Vec3d(0, 0, 0), Vec3d(0, 0, -1000))
    /\ call.sphere.center = Vec3d(0, 0, -5000)
    /\ call.t_range = Range(1000, 100000)
    /\ call.result = <<4000>>


\* C15: trace_ray with reflection limit 0 whose nearest hit is a shiny object
\* returns the object's colour scaled by the direct light, and makes no
\* nested call, whatever the reflection ratio is
C15_LimitZeroDirectOnly ==
    (call.fn = "trace_ray" /\ call.ray_refl_limit = 0) =>
        LET hit == closest_intersection(call.scene.objs, call.ray, call.t_range)
        IN  (hit.obj # 0 /\ call.scene.objs[hit.obj].material.kind = "Shiny") =>
                /\ call.result.calls = << >>
                /\ call.result.color =
                       ColorScale(call.scene.objs[hit.obj].color,
                                  DirectLight(call.scene, call.scene.objs[hit.obj],
                                              call.ray, hit.intxp, 1))

\* a perfect mirror that faces another one has been traced with limit 0
C15_Witness ==
    /\ call.fn = "trace_ray"
    /\ call.ray_refl_limit = 0
    /\ Len(call.scene.objs) = 2
    /\ call.scene.objs[1].material.kind = "Shiny"
    /\ call.scene.objs[1].material.refl_rat = Scale
    /\ call.ray.dir = Vec3d(0, 0, -1000)
    /\ call.result.color # call.scene.bg_col

\* C16: at the hit point of trace_ray an ambient light adds its intensity; a
\* point light adds nothing when the nearest hit of the shadow ray is closer
\* than the light, and what it adds with nothing in the way when there is no
\* such hit or the hit is not closer than the light; a directional light adds
\* nothing when the shadow ray has a hit, and else what it adds with nothing
\* in the way; and without reflection the colour returned is the object's
\* colour scaled by the sum
C16_ShadowedLightsAddNothing ==
    call.fn = "trace_ray" =>
        LET hit == closest_intersection(call.scene.objs, call.ray, call.t_range)
        IN  hit.obj # 0 =>
              /\ \A k \in 1..Len(call.scene.lights) :
                    LET light == call.scene.lights[k]
                        obj == call.scene.objs[hit.obj]
                        added == LightContribution(call.scene.objs, obj, light,
                                                   call.ray, hit.intxp)
                        free == LightContribution(<< >>, obj, light,
                                                  call.ray, hit.intxp)
                        shdw == closest_intersection(
                                    call.scene.objs,
                                    Ray(hit.intxp,
                                        IF light.kind = "Point"
                                        THEN VSub(light.pos, hit.intxp)
                                        ELSE VScale(light.dir, -Scale)),
                                    Range(ShadowMin, Infinity))
                        closer == /\ shdw.obj # 0
                                  /\ magnitude(VSub(hit.intxp, shdw.intxp))
                                       < magnitude(VSub(hit.intxp, light.pos))
                    IN  CASE light.kind = "Ambient" -> added = light.intensity
                          [] light.kind = "Point" ->
                                added = IF closer THEN 0 ELSE free
                          [] OTHER ->
                                added = IF shdw.obj # 0 THEN 0 ELSE free
              /\ call.result.calls = << >> =>
                    call.result.color =
                        ColorScale(call.scene.objs[hit.obj].color,
                                   DirectLight(call.scene, call.scene.objs[hit.obj],
                                               call.ray, hit.intxp, 1))

\* sphere A has been traced with sphere B between it and the point light:
\* only the ambient light reaches the hit point
C16_Witness ==
    /\ call.fn = "trace_ray"
    /\ call.scene.lights[2].kind = "Point"
    /\ call.scene.lights[2].pos = Vec3d(0, 0, 4000)
    /\ Len(call.scene.objs) = 2
    /\ call.scene.objs[1].material.kind = "Matte"
    /\ call.ray.dir = Vec3d(0, 0, -1000)
    /\ call.result.color = ColorScale(Red, call.scene.lights[1].intensity)

\* C18 as stated: when trace_ray makes the nested call for a shiny hit, the
\* normal it reflects about, after the orientation step, has a dot product
\* with the direction of the incoming ray that is <= 0
C18_NormalFacesOrigin ==
    (call.fn = "trace_ray" /\ call.result.calls # << >>) =>
        LET hit == closest_intersection(call.scene.objs, call.ray, call.t_range)
        IN  Dot(OrientNormal(get_normal(call.scene.objs[hit.obj], hit.intxp)[1],
                             call.ray.dir),
                call.ray.dir) <= 0

\* C19: the nested calls of a trace_ray call with limit d have the limits
\* d - 1, d - 2, ..., each 1 less than the one before and none below 0, so
\* there are at most d of them; and a nested call is made only when the limit
\* is above 0 and the ray hits a shiny object with a reflection ratio above 0
C19_RecursionBounded ==
    call.fn = "trace_ray" =>
        LET hit == closest_intersection(call.scene.objs, call.ray, call.t_range)
            calls == call.result.calls
        IN  /\ Len(calls) <= call.ray_refl_limit
            /\ \A n \in 1..Len(calls) : calls[n] = call.ray_refl_limit - n
            /\ calls # << >> =>
                  /\ call.ray_refl_limit > 0
                  /\ hit.obj # 0
                  /\ call.scene.objs[hit.obj].material.kind = "Shiny"
                  /\ call.scene.objs[hit.obj].material.refl_rat > 0

\* two perfect mirrors that face each other have been traced with the limit 2
\* of the renderer: two nested calls, the last one with limit 0
C19_Witness ==
    /\ call.fn = "trace_ray"
    /\ call.ray_refl_limit = 2
    /\ Len(call.scene.objs) = 2
    /\ call.scene.objs[1].material.kind = "Shiny"
    /\ call.scene.objs[1].material.refl_rat = Scale
    /\ call.result.calls = <<1, 0>>



\* C21: Triangle::get_closest_intersection reports a hit at t only if the
\* determinant is not zero, the barycentric coordinates satisfy 0 <= u <= 1,
\* v >= 0 and u + v <= 1, and t lies in the range; a ray parallel to the
\* plane of the triangle (its direction at a right angle to the normal
\* e1 x e2) reports none, and neither does a ray that crosses the plane of a
\* triangle with legs along x and y outside the triangle.
C21_TriangleHitConditions ==
    call.fn = "Triangle::get_closest_intersection" =>
        LET b == Barycentric(call.triangle, call.ray)
            p0 == call.triangle.ps[1]
            e1 == VSub(call.triangle.ps[2], p0)
            e2 == VSub(call.triangle.ps[3], p0)
            dir == call.ray.dir
            p == RayAt(call.ray, FDiv(p0.z - call.ray.origin.z, dir.z))
        IN  /\ call.result # << >> =>
                /\ b.det # 0
                /\ 0 <= b.u /\ b.u <= Scale
                /\ b.a >= 0
                /\ b.u + b.a <= Scale
                /\ call.result = <<b.t>>
                /\ call.t_range.min <= b.t /\ b.t <= call.t_range.max
            /\ Dot(dir, Cross(e1, e2)) = 0 => call.result = << >>
            /\ (/\ e1.y = 0 /\ e1.z = 0 /\ e2.x = 0 /\ e2.z = 0
                /\ e1.x > 0 /\ e2.y > 0 /\ dir.z # 0
                /\ \/ p.x < p0.x
                   \/ p.y < p0.y
                   \/ (p.x - p0.x) * e2.y + (p.y - p0.y) * e1.x > e1.x * e2.y)
               => call.result = << >>

\* a ray from the origin into the flat triangle is reported at t = 2 with
\* u = v = 0.3
C21_Witness ==
    /\ call.fn = "Triangle::get_closest_intersection"
    /\ call.ray = Ray(Vec3d(0, 0, 0), Vec3d(-200, -200, -1000))
    /\ call.triangle.ps[2].z = -2000
    /\ call.result = <<2000>>
    /\ Barycentric(call.triangle, call.ray).u = 300
    /\ Barycentric(call.triangle, call.ray).a = 300


\* C22: the merge step of a worker changes only canvas cells of its own band
\* (rows row_start..row_end-1, every column below canvas.width), cells it
\* traced itself in this frame; no cell of the band of another worker is
\* changed by it, so no cell is written by two workers in a frame; the worker
\* holds the canvas mutex while it merges, and apart from the merges only
\* Canvas::clear changes the canvas.
C22_MergeWritesOwnBand ==
    [][/\ \A i \in Threads :
            (wpc[i] = "merge" /\ wpc'[i] # "merge") =>
                /\ canvas_mutex.holder = i
                /\ \A r \in 1..canvas.height : \A c \in 1..Len(canvas.buffer[r]) :
                       canvas'.buffer[r][c] # canvas.buffer[r][c] =>
                           /\ band[i].row_start <= r - 1
                           /\ r - 1 < band[i].row_end
                           /\ c - 1 < canvas.width
                           /\ computed[r][c].by = i
                           /\ \A j \in Threads \ {i} :
                                  ~(/\ RowStart(j - 1, canvas.height,
                                                args.num_threads) <= r - 1
                                    /\ r - 1 < RowEnd(j - 1, canvas.height,
                                                      args.num_threads))
       /\ canvas' # canvas =>
              \/ mpc = "clear"
              \/ \E i \in Threads : wpc[i] = "merge" /\ wpc'[i] = "exiting"
      ]_vars

\* a worker has merged its band while it holds the canvas mutex, after
\* another worker merged another band: both bands hold colours
C22_Witness ==
    \E i \in Threads : \E j \in Threads \ {i} :
        /\ wpc[i] = "exiting"
        /\ wpc[j] = "finished"
        /\ canvas_mutex.holder = i
        /\ \E r \in 1..canvas.height :
               /\ band[i].row_start <= r - 1 /\ r - 1 < band[i].row_end
               /\ canvas.buffer[r][1] # 0
        /\ \E r \in 1..canvas.height :
               /\ band[j].row_start <= r - 1 /\ r - 1 < band[j].row_end
               /\ canvas.buffer[r][1] # 0


\* C23: in one update_camera call every movement key moves the origin along
\* the axis turned by the rot_m the call started with, also when a look key
\* comes before it in the same call; the look keys change y_rot and x_rot,
\* and rot_m is rebuilt from them once, after all keys: the camera after the
\* call is the one some key list gives in this way.
C23_MoveUsesPreviousRotation ==
    [][\E keys \in KeyLists(MoveKeys \cup {"Left", "Up"}) :
          LET Axis(key) == CASE key = "A" -> Vec3d(-Scale, 0, 0)
                             [] key = "D" -> Vec3d(Scale, 0, 0)
                             [] key = "W" -> Vec3d(0, 0, -Scale)
                             [] OTHER -> Vec3d(0, 0, Scale)
              Speed(key) == IF key \in {"A", "D"} THEN x_speed ELSE z_speed
              Along(key) == VScale(normalize[MatVec[camera.rot_m, Axis(key)]],
                                   Speed(key))
              Step(n) == IF n <= Len(keys) /\ keys[n] \in MoveKeys
                         THEN Vec3d(Along(keys[n]).x, 0, Along(keys[n]).z)
                         ELSE Vec3d(0, 0, 0)
              Pressed(key) == \E n \in 1..Len(keys) : keys[n] = key
              y_rot == camera.y_rot + (IF Pressed("Left") THEN y_rot_speed ELSE 0)
              x_rot == IF Pressed("Up")
                       THEN Min(camera.x_rot + x_rot_speed, MaxPitch)
                       ELSE camera.x_rot
          IN  /\ camera'.origin = VAdd(VAdd(camera.origin, Step(1)), Step(2))
              /\ camera'.y_rot = y_rot
              /\ camera'.x_rot = x_rot
              /\ camera'.rot_m =
                     MatMul[rotation_matrix[MatVec[rotation_y(y_rot),
                                                   Vec3d(Scale, 0, 0)], x_rot],
                            rotation_y(y_rot)]
      ]_vars

\* a camera turned left by one update is turned left again and moved forward
\* by the next: it has moved along the forward axis as it was before the
\* second turn, which is not the forward axis it has now
C23_Witness ==
    LET turned == update_camera(CameraNew(Scene.camera_origin, camera.vp_width),
                                <<"Left">>)
        before == VScale(normalize[MatVec[turned.rot_m, Vec3d(0, 0, -Scale)]],
                         z_speed)
        now == VScale(normalize[MatVec[camera.rot_m, Vec3d(0, 0, -Scale)]],
                      z_speed)
    IN  /\ cam_updates = 2
        /\ camera = update_camera(turned, <<"Left", "W">>)
        /\ camera.origin = VAdd(turned.origin, Vec3d(before.x, 0, before.z))
        /\ before.x # now.x


\* C24: render_canvas expands each canvas cell into a square block of screen
\* pixels: for every screen pixel (r, c) with r < screen.height and
\* c < screen.width the entry r * screen.width + c of the screen buffer is
\* assigned exactly once by a call, and holds afterwards the value of the
\* canvas cell [r / canvas_unit_size][c / canvas_unit_size]; no assignment
\* has an index outside the screen buffer.
C24_BlocksFillScreen ==
    [][(mpc = "render_canvas" /\ mpc' # "render_canvas" /\ mpc' # "panicked") =>
          LET writes == RenderWrites(screen, canvas, args.canvas_unit_size)
          IN  /\ \A r \in 0..(screen.height - 1) : \A c \in 0..(screen.width - 1) :
                     /\ Cardinality({w \in writes :
                                        w.index = r * screen.width + c}) = 1
                     /\ screen'.buffer[r * screen.width + c + 1] =
                            canvas.buffer[(r \div args.canvas_unit_size) + 1]
                                         [(c \div args.canvas_unit_size) + 1]
              /\ \A w \in writes : 0 <= w.index /\ w.index < Len(screen.buffer)
              /\ Len(screen'.buffer) = screen.width * screen.height
      ]_vars

\* a canvas of cells with different colours has been shown with blocks of
\* 2 x 2 pixels: the four pixels of the first block hold the first cell
C24_Witness ==
    /\ args.canvas_unit_size = 2
    /\ mpc # "render_canvas"
    /\ prev # << >>
    /\ prev[1].buffer = canvas.buffer
    /\ \E r \in 1..canvas.height : \E c \in 1..canvas.width :
           canvas.buffer[r][c] # canvas.buffer[1][1]
    /\ canvas.buffer[1][1] # 0
    /\ \A k \in {1, 2, screen.width + 1, screen.width + 2} :
           screen.buffer[k] = canvas.buffer[1][1]

=============================================================================
